---- MODULE Spec2Model ----
(***************************************************************************)
(* Model of packages/cli-tool/src/services/starter-template/               *)
(* FrameworkAgnosticStarter.ts: the nine exported scaffolding operations   *)
(* acting on a target root directory.                                      *)
(*                                                                         *)
(* JSON values are tagged pairs <<tag, payload>>; an object is an ordered  *)
(* sequence of <<key, value>> pairs with distinct keys, as a JavaScript    *)
(* object keeps its own properties in insertion order.  The file system    *)
(* under the target root is a function from root-relative paths to what    *)
(* the path holds.                                                         *)
(***************************************************************************)
EXTENDS Integers, Sequences, FiniteSets, TLC

VARIABLES
    fs,      \* path -> what the path holds under the target root
    fs0,     \* the target root as it was before any operation ran
    log,     \* the messages handed to logger, in order
    calls,   \* operation -> number of completed invocations
    raised,  \* the operations whose promise rejected
    pc,      \* operation -> awaited calls of its in-flight invocation that completed
    pkg      \* the local `pkg` of the in-flight createUniversalPackageJson

vars == <<fs, fs0, log, calls, raised, pc, pkg>>

\* How many times one operation is invoked in a sequential run.
MaxCalls == 2

-----------------------------------------------------------------------------
(* JSON / JavaScript values                                                *)

Str(s) == <<"string", s>>
True == <<"boolean", "true">>
False == <<"boolean", "false">>
Null == <<"null", "null">>
Undefined == <<"undefined", "undefined">>
Obj(props) == <<"object", props>>
Arr(elems) == <<"array", elems>>

IsObj(v) == v[1] = "object"

\* ToBoolean: "", false, null and undefined are falsy; objects, arrays and
\* non-empty strings are truthy.
Truthy(v) ==
    CASE v[1] = "string" -> v[2] # ""
      [] v[1] = "boolean" -> v[2] = "true"
      [] v[1] = "null" -> FALSE
      [] v[1] = "undefined" -> FALSE
      [] OTHER -> TRUE

\* a || b
Or(a, b) == IF Truthy(a) THEN a ELSE b

\* a ?? b
Coalesce(a, b) == IF a = Null \/ a = Undefined THEN b ELSE a

Keys(props) == {props[i][1] : i \in 1..Len(props)}

\* props[k] on the property list of an object
Get(props, k) ==
    IF k \in Keys(props)
    THEN props[CHOOSE i \in 1..Len(props) : props[i][1] = k][2]
    ELSE Undefined

\* Defining property k: an existing key keeps its position, a new one goes last.
Put(props, k, v) ==
    IF k \in Keys(props)
    THEN [i \in 1..Len(props) |-> IF props[i][1] = k THEN <<k, v>> ELSE props[i]]
    ELSE Append(props, <<k, v>>)

RECURSIVE PutAll(_, _)
PutAll(props, more) ==
    IF more = <<>> THEN props
    ELSE PutAll(Put(props, Head(more)[1], Head(more)[2]), Tail(more))

\* v.k : a property read; on a non-object primitive it is undefined here.
Prop(v, k) == IF IsObj(v) THEN Get(v[2], k) ELSE Undefined

\* v?.k
OptProp(v, k) == IF v = Null \/ v = Undefined THEN Undefined ELSE Prop(v, k)

\* { ...v } : the own enumerable properties of v; null, undefined and
\* booleans contribute none.
Spread(v) == IF IsObj(v) THEN v[2] ELSE <<>>

\* Reading a property of null or undefined throws a TypeError.
ThrowsOnRead(v) == v = Null \/ v = Undefined

-----------------------------------------------------------------------------
(* The file system (fs-extra)                                              *)

Absent == <<"absent", "">>
Dir == <<"dir", "">>
Text(t) == <<"text", t>>
\* A file holding the serialization of JSON value v.
Json(v) == <<"json", v>>

pkgPath == "package.json"

Ops ==
    {"createUniversalPackageJson", "createUniversalTsconfig",
     "createUniversalTailwindConfig", "createUniversalPostCSSConfig",
     "createUniversalEslintConfig", "createUniversalIgnixConfig",
     "createUniversalSrcStructure", "createUniversalGitignore",
     "createUniversalReadme"}

StaticOps == Ops \ {"createUniversalPackageJson"}

Dirs == {"src", "src/components", "src/pages", "src/styles", "dist"}

Files ==
    {"package.json", "tsconfig.json", "tailwind.config.js", "postcss.config.js",
     ".eslintrc.json", "ignix.config.js", "src/components/UiShell.tsx",
     "src/pages/index.tsx", "src/styles/index.css", ".gitignore", "README.md"}

\* Paths no operation names: a lock file, a previous build output and the
\* themes directory that ignix.config.js points to.
OtherPaths == {"package-lock.json", "dist/styles.css", "src/styles/themes"}

Paths == Files \cup Dirs \cup OtherPaths

\* fs.pathExists
pathExists(f, p) == f[p] # Absent

\* fs.readJSON succeeds exactly on a file that holds valid JSON.
CanReadJSON(f, p) == f[p][1] = "json"

readJSON(f, p) == f[p][2]

\* fs.writeJSON / fs.writeFile replace whatever the path held.
writeJSON(f, p, v) == [f EXCEPT ![p] = Json(v)]

\* A faulty writeFile that leaves an existing file alone (flag 'wx').
writeFileIfAbsent(f, p, text) == IF pathExists(f, p) THEN f ELSE [f EXCEPT ![p] = text]

writeFile(f, p, text) == [f EXCEPT ![p] = text]

\* path.dirname below the target root ("" is the root itself).
Dirname(p) ==
    CASE p \in {"src/components", "src/pages", "src/styles"} -> "src"
      [] p = "src/styles/themes" -> "src/styles"
      [] OTHER -> ""

\* The directories fs.ensureDir(p) makes when missing: p and its ancestors.
RECURSIVE Ancestors(_)
Ancestors(p) == IF p = "" THEN {} ELSE {p} \cup Ancestors(Dirname(p))

ensureDir(f, p) ==
    [q \in DOMAIN f |-> IF q \in Ancestors(p) /\ f[q] = Absent THEN Dir ELSE f[q]]

-----------------------------------------------------------------------------
(* createUniversalPackageJson                                              *)

InfoFound ==
    <<"info", "Existing package.json found - merging starter scripts and dependencies.">>

WarnUnparsable == <<"warn", "Unable to parse package.json, generating a fresh one.">>

\* A faulty read that logs the info message before the parse is attempted.
ReadExistingInfoFirst(f) ==
    IF pathExists(f, pkgPath)
    THEN IF CanReadJSON(f, pkgPath)
         THEN [pkg |-> readJSON(f, pkgPath), logs |-> <<InfoFound>>]
         ELSE [pkg |-> Obj(<<>>), logs |-> <<InfoFound, WarnUnparsable>>]
    ELSE [pkg |-> Obj(<<>>), logs |-> <<>>]

\* Lines 9-18: the value of `pkg` and the messages logged while reading.
ReadExisting(f) ==
    IF pathExists(f, pkgPath)
    THEN IF CanReadJSON(f, pkgPath)
         THEN [pkg |-> readJSON(f, pkgPath), logs |-> <<InfoFound>>]
         ELSE [pkg |-> Obj(<<>>), logs |-> <<WarnUnparsable>>]
    ELSE [pkg |-> Obj(<<>>), logs |-> <<>>]

\* Faulty scripts in which dev is a plain default like the five after it.
starterScriptsDevOverwritten(p) ==
    PutAll(Spread(Prop(p, "scripts")),
        << <<"dev",
                Str("echo \"Plug your preferred framework dev server here (e.g. vite dev)\"")>>,
           <<"typecheck", Str("tsc --noEmit")>>,
           <<"build:css",
                Str("tailwindcss -i ./src/styles/index.css -o ./dist/styles.css --minify")>>,
           <<"build", Str("npm run typecheck && npm run build:css")>>,
           <<"lint", Str("eslint \"src/**/*.{ts,tsx}\" --max-warnings=0")>>,
           <<"format", Str("prettier --write \"src/**/*.{ts,tsx,css,md}\"")>> >>)

starterScripts(p) ==
    PutAll(Spread(Prop(p, "scripts")),
        << <<"dev", Or(OptProp(Prop(p, "scripts"), "dev"),
                Str("echo \"Plug your preferred framework dev server here (e.g. vite dev)\""))>>,
           <<"typecheck", Str("tsc --noEmit")>>,
           <<"build:css",
                Str("tailwindcss -i ./src/styles/index.css -o ./dist/styles.css --minify")>>,
           <<"build", Str("npm run typecheck && npm run build:css")>>,
           <<"lint", Str("eslint \"src/**/*.{ts,tsx}\" --max-warnings=0")>>,
           <<"format", Str("prettier --write \"src/**/*.{ts,tsx,css,md}\"")>> >>)

\* Faulty dependencies that lack the tailwind-merge entry.
starterDependenciesWithoutTailwindMerge(p) ==
    PutAll(Spread(Or(Prop(p, "dependencies"), Obj(<<>>))),
        << <<"react", Or(OptProp(Prop(p, "dependencies"), "react"), Str("^18.3.1"))>>,
           <<"react-dom", Or(OptProp(Prop(p, "dependencies"), "react-dom"), Str("^18.3.1"))>>,
           <<"@mindfiredigital/ignix-ui",
                Or(OptProp(Prop(p, "dependencies"), "@mindfiredigital/ignix-ui"), Str("^1.0.5"))>>,
           <<"clsx", Or(OptProp(Prop(p, "dependencies"), "clsx"), Str("^2.1.1"))>> >>)

\* Faulty dependencies that spread pkg.devDependencies instead of
\* pkg.dependencies.
starterDependenciesFromDev(p) ==
    PutAll(Spread(Or(Prop(p, "devDependencies"), Obj(<<>>))),
        << <<"react", Or(OptProp(Prop(p, "dependencies"), "react"), Str("^18.3.1"))>>,
           <<"react-dom", Or(OptProp(Prop(p, "dependencies"), "react-dom"), Str("^18.3.1"))>>,
           <<"@mindfiredigital/ignix-ui",
                Or(OptProp(Prop(p, "dependencies"), "@mindfiredigital/ignix-ui"), Str("^1.0.5"))>>,
           <<"clsx", Or(OptProp(Prop(p, "dependencies"), "clsx"), Str("^2.1.1"))>>,
           <<"tailwind-merge",
                Or(OptProp(Prop(p, "dependencies"), "tailwind-merge"), Str("^3.0.2"))>> >>)

starterDependencies(p) ==
    PutAll(Spread(Or(Prop(p, "dependencies"), Obj(<<>>))),
        << <<"react", Or(OptProp(Prop(p, "dependencies"), "react"), Str("^18.3.1"))>>,
           <<"react-dom", Or(OptProp(Prop(p, "dependencies"), "react-dom"), Str("^18.3.1"))>>,
           <<"@mindfiredigital/ignix-ui",
                Or(OptProp(Prop(p, "dependencies"), "@mindfiredigital/ignix-ui"), Str("^1.0.5"))>>,
           <<"clsx", Or(OptProp(Prop(p, "dependencies"), "clsx"), Str("^2.1.1"))>>,
           <<"tailwind-merge",
                Or(OptProp(Prop(p, "dependencies"), "tailwind-merge"), Str("^3.0.2"))>> >>)

starterDevDependencies(p) ==
    PutAll(Spread(Or(Prop(p, "devDependencies"), Obj(<<>>))),
        << <<"typescript", Str("^5.6.2")>>,
           <<"@types/react", Str("^18.3.5")>>,
           <<"@types/react-dom", Str("^18.3.0")>>,
           <<"tailwindcss", Str("^3.4.14")>>,
           <<"postcss", Str("^8.4.41")>>,
           <<"autoprefixer", Str("^10.4.20")>>,
           <<"eslint", Str("^9.11.1")>>,
           <<"@typescript-eslint/parser", Str("^8.7.0")>>,
           <<"@typescript-eslint/eslint-plugin", Str("^8.7.0")>>,
           <<"prettier", Str("^3.3.3")>>,
           <<"prettier-plugin-tailwindcss", Str("^0.6.6")>> >>)

\* Faulty scalars that take `private` with || like the other three.
starterScalarsPrivateOr(p) ==
    << <<"name", Or(Prop(p, "name"), Str("ignix-universal-app"))>>,
       <<"version", Or(Prop(p, "version"), Str("0.1.0"))>>,
       <<"private", Or(Prop(p, "private"), True)>>,
       <<"type", Or(Prop(p, "type"), Str("module"))>> >>

starterScalars(p) ==
    << <<"name", Or(Prop(p, "name"), Str("ignix-universal-app"))>>,
       <<"version", Or(Prop(p, "version"), Str("0.1.0"))>>,
       <<"private", Coalesce(Prop(p, "private"), True)>>,
       <<"type", Or(Prop(p, "type"), Str("module"))>> >>

\* Lines 20-57: the object literal `starterPkg`, for a `pkg` that is not null.
starterPkg(p) ==
    Obj(PutAll(<<>>,
        starterScalars(p) \o
        << <<"scripts", Obj(starterScripts(p))>>,
           <<"dependencies", Obj(starterDependencies(p))>>,
           <<"devDependencies", Obj(starterDevDependencies(p))>> >>))

\* The file system after one whole call (unchanged when `pkg.name` throws).
PackageJsonEffect(f) ==
    LET p == ReadExisting(f).pkg
    IN  IF ThrowsOnRead(p) THEN f ELSE writeJSON(f, pkgPath, starterPkg(p))

createUniversalPackageJson ==
    /\ calls["createUniversalPackageJson"] < MaxCalls
    /\ log' = log \o ReadExisting(fs).logs
    /\ fs' = PackageJsonEffect(fs)
    /\ raised' = IF ThrowsOnRead(ReadExisting(fs).pkg)
                 THEN raised \cup {"createUniversalPackageJson"}
                 ELSE raised
    /\ calls' = [calls EXCEPT !["createUniversalPackageJson"] = @ + 1]
    /\ UNCHANGED <<fs0, pc, pkg>>

-----------------------------------------------------------------------------
(* The static emitters                                                     *)

tsconfig ==
    Obj(<< <<"compilerOptions",
                Obj(<< <<"target", Str("ES2020")>>,
                       <<"lib", Arr(<<Str("DOM"), Str("DOM.Iterable"), Str("ES2020")>>)>>,
                       <<"module", Str("ESNext")>>,
                       <<"moduleResolution", Str("Bundler")>>,
                       <<"strict", True>>,
                       <<"noEmit", True>>,
                       <<"skipLibCheck", False>>,
                       <<"forceConsistentCasingInFileNames", True>>,
                       <<"esModuleInterop", True>>,
                       <<"resolveJsonModule", True>>,
                       <<"jsx", Str("react-jsx")>>,
                       <<"baseUrl", Str(".")>>,
                       <<"paths", Obj(<< <<"@/*", Arr(<<Str("src/*")>>)>> >>)>> >>)>>,
           <<"include", Arr(<<Str("src")>>)>>,
           <<"exclude", Arr(<<Str("node_modules"), Str("dist")>>)>> >>)

eslintConfig ==
    Obj(<< <<"env", Obj(<< <<"browser", True>>, <<"es2022", True>> >>)>>,
           <<"parser", Str("@typescript-eslint/parser")>>,
           <<"parserOptions",
                Obj(<< <<"ecmaVersion", Str("latest")>>,
                       <<"sourceType", Str("module")>>,
                       <<"ecmaFeatures", Obj(<< <<"jsx", True>> >>)>> >>)>>,
           <<"plugins", Arr(<<Str("@typescript-eslint")>>)>>,
           <<"extends",
                Arr(<<Str("eslint:recommended"), Str("plugin:@typescript-eslint/recommended")>>)>>,
           <<"ignorePatterns", Arr(<<Str("dist"), Str("node_modules")>>)>>,
           <<"rules",
                Obj(<< <<"@typescript-eslint/no-unused-vars",
                            Arr(<<Str("warn"),
                                  Obj(<< <<"argsIgnorePattern", Str("^_")>>,
                                         <<"varsIgnorePattern", Str("^_")>> >>)>>)>> >>)>> >>)

\* The template literals, each named by its opening line.
config == Text("/** @type {import('tailwindcss').Config} */ module.exports = { darkMode: ... };")
postcssContents == Text("module.exports = { plugins: { tailwindcss: {}, autoprefixer: {}, }, };")
ignixConfig == Text("/* eslint-env node */ module.exports = { registryUrl: ..., themesDir: 'src/styles/themes', };")
uiShell == Text("import { Button, Card } from '@mindfiredigital/ignix-ui'; export function UiShell() ...")
pageContent == Text("import { UiShell } from '../components/UiShell'; export function HomePage() ...")
styles == Text("@tailwind base; @tailwind components; @tailwind utilities; :root {...} .dark {...} body {...}")
gitignoreContents == Text("node_modules dist .turbo .next .vercel .cache .env .env.* *.log *.lock .DS_Store")
readme == Text("# Ignix UI Universal Starter ...")

TsconfigEffect(f) == writeJSON(f, "tsconfig.json", tsconfig)

TailwindConfigEffect(f) == writeFile(f, "tailwind.config.js", config)

PostCSSConfigEffect(f) == writeFile(f, "postcss.config.js", postcssContents)

\* A faulty eslint emitter that writes its document to package.json.
EslintConfigIntoPackageJson(f) == writeJSON(f, pkgPath, eslintConfig)

EslintConfigEffect(f) == writeJSON(f, ".eslintrc.json", eslintConfig)

IgnixConfigEffect(f) == writeFile(f, "ignix.config.js", ignixConfig)

GitignoreEffect(f) == writeFile(f, ".gitignore", gitignoreContents)

ReadmeEffect(f) == writeFile(f, "README.md", readme)

\* Faulty awaited calls that also make the themes directory.
srcAwaitsWithThemes ==
    << <<"ensureDir", "src/components">>,
       <<"ensureDir", "src/pages">>,
       <<"ensureDir", "src/styles">>,
       <<"ensureDir", "src/styles/themes">>,
       <<"ensureDir", "dist">>,
       <<"writeFile", "src/components/UiShell.tsx", uiShell>>,
       <<"writeFile", "src/pages/index.tsx", pageContent>>,
       <<"writeFile", "src/styles/index.css", styles>> >>

\* The awaited calls of createUniversalSrcStructure, in program order.
srcAwaits ==
    << <<"ensureDir", "src/components">>,
       <<"ensureDir", "src/pages">>,
       <<"ensureDir", "src/styles">>,
       <<"ensureDir", "dist">>,
       <<"writeFile", "src/components/UiShell.tsx", uiShell>>,
       <<"writeFile", "src/pages/index.tsx", pageContent>>,
       <<"writeFile", "src/styles/index.css", styles>> >>

\* The file system after the awaited call a.
Await(f, a) == IF a[1] = "ensureDir" THEN ensureDir(f, a[2]) ELSE writeFile(f, a[2], a[3])

RECURSIVE RunAwaits(_, _)
RunAwaits(f, as) == IF as = <<>> THEN f ELSE RunAwaits(Await(f, Head(as)), Tail(as))

SrcStructureEffect(f) == RunAwaits(f, srcAwaits)

\* The file system after one whole call of op.
Effect(op, f) ==
    CASE op = "createUniversalPackageJson" -> PackageJsonEffect(f)
      [] op = "createUniversalTsconfig" -> TsconfigEffect(f)
      [] op = "createUniversalTailwindConfig" -> TailwindConfigEffect(f)
      [] op = "createUniversalPostCSSConfig" -> PostCSSConfigEffect(f)
      [] op = "createUniversalEslintConfig" -> EslintConfigEffect(f)
      [] op = "createUniversalIgnixConfig" -> IgnixConfigEffect(f)
      [] op = "createUniversalSrcStructure" -> SrcStructureEffect(f)
      [] op = "createUniversalGitignore" -> GitignoreEffect(f)
      [] op = "createUniversalReadme" -> ReadmeEffect(f)

\* The bookkeeping of one whole call of a static emitter: it resolves, logs
\* nothing and is counted.
Returns(op) ==
    /\ calls' = [calls EXCEPT ![op] = @ + 1]
    /\ UNCHANGED <<fs0, log, raised, pc, pkg>>

createUniversalTsconfig ==
    /\ calls["createUniversalTsconfig"] < MaxCalls
    /\ fs' = TsconfigEffect(fs)
    /\ Returns("createUniversalTsconfig")

createUniversalTailwindConfig ==
    /\ calls["createUniversalTailwindConfig"] < MaxCalls
    /\ fs' = TailwindConfigEffect(fs)
    /\ Returns("createUniversalTailwindConfig")

createUniversalPostCSSConfig ==
    /\ calls["createUniversalPostCSSConfig"] < MaxCalls
    /\ fs' = PostCSSConfigEffect(fs)
    /\ Returns("createUniversalPostCSSConfig")

createUniversalEslintConfig ==
    /\ calls["createUniversalEslintConfig"] < MaxCalls
    /\ fs' = EslintConfigEffect(fs)
    /\ Returns("createUniversalEslintConfig")

createUniversalIgnixConfig ==
    /\ calls["createUniversalIgnixConfig"] < MaxCalls
    /\ fs' = IgnixConfigEffect(fs)
    /\ Returns("createUniversalIgnixConfig")

createUniversalSrcStructure ==
    /\ calls["createUniversalSrcStructure"] < MaxCalls
    /\ fs' = SrcStructureEffect(fs)
    /\ Returns("createUniversalSrcStructure")

createUniversalGitignore ==
    /\ calls["createUniversalGitignore"] < MaxCalls
    /\ fs' = GitignoreEffect(fs)
    /\ Returns("createUniversalGitignore")

createUniversalReadme ==
    /\ calls["createUniversalReadme"] < MaxCalls
    /\ fs' = ReadmeEffect(fs)
    /\ Returns("createUniversalReadme")

-----------------------------------------------------------------------------
(* The operations launched together: one invocation of each, every step    *)
(* the completion of one awaited call                                      *)

Merger == "createUniversalPackageJson"

SrcStructure == "createUniversalSrcStructure"

SingleWriteOps == StaticOps \ {SrcStructure}

InFlight(op) == calls[op] = 0

Finish(op) == calls' = [calls EXCEPT ![op] = 1]

\* Line 11: `await fs.pathExists(pkgPath)` resolves.  When false, line 59's
\* write is issued with `pkg` still {}.
PackageJsonPathExists ==
    /\ InFlight(Merger) /\ pc[Merger] = 0
    /\ pc' = [pc EXCEPT ![Merger] = IF pathExists(fs, pkgPath) THEN 1 ELSE 2]
    /\ UNCHANGED <<fs, fs0, log, calls, raised, pkg>>

\* Lines 13-16: `await fs.readJSON(pkgPath)` resolves or rejects; the object
\* literal of line 20 is then evaluated and throws on a null `pkg`.
PackageJsonReadJSON ==
    /\ InFlight(Merger) /\ pc[Merger] = 1
    /\ pkg' = ReadExisting(fs).pkg
    /\ log' = log \o ReadExisting(fs).logs
    /\ IF ThrowsOnRead(pkg')
       THEN /\ raised' = raised \cup {Merger}
            /\ Finish(Merger)
            /\ UNCHANGED pc
       ELSE /\ pc' = [pc EXCEPT ![Merger] = 2]
            /\ UNCHANGED <<raised, calls>>
    /\ UNCHANGED <<fs, fs0>>

\* Line 59: the write of `starterPkg`, built from `pkg` as read, lands.
PackageJsonWriteJSON ==
    /\ InFlight(Merger) /\ pc[Merger] = 2
    /\ fs' = writeJSON(fs, pkgPath, starterPkg(pkg))
    /\ pc' = [pc EXCEPT ![Merger] = 3]
    /\ Finish(Merger)
    /\ UNCHANGED <<fs0, log, raised, pkg>>

\* Lines 192-292: the next awaited call of createUniversalSrcStructure lands.
SrcStructureAwait ==
    /\ InFlight(SrcStructure)
    /\ fs' = Await(fs, srcAwaits[pc[SrcStructure] + 1])
    /\ pc' = [pc EXCEPT ![SrcStructure] = @ + 1]
    /\ calls' = IF pc'[SrcStructure] = Len(srcAwaits)
                THEN [calls EXCEPT ![SrcStructure] = 1]
                ELSE calls
    /\ UNCHANGED <<fs0, log, raised, pkg>>

\* The single write of one of the other seven emitters lands.
SingleWriteLands ==
    \E op \in SingleWriteOps :
        /\ InFlight(op)
        /\ fs' = Effect(op, fs)
        /\ pc' = [pc EXCEPT ![op] = 1]
        /\ Finish(op)
        /\ UNCHANGED <<fs0, log, raised, pkg>>

-----------------------------------------------------------------------------
(* Target roots the operations start from                                  *)

Opt(k, v) == IF v = Undefined THEN <<>> ELSE << <<k, v>> >>

NameVals == {Undefined, Str(""), Str("foo")}
VersionVals == {Undefined, Str(""), Str("2.0.0")}
PrivateVals == {Undefined, False, Null}
TypeVals == {Undefined, Str("commonjs")}
LicenseVals == {Undefined, Str("MIT")}
ScriptsVals ==
    {Undefined,
     Obj(<< <<"dev", Str("custom")>> >>),
     Obj(<< <<"dev", Str("")>> >>),
     Obj(<< <<"test", Str("vitest")>>, <<"build", Str("vite build")>> >>)}
DependenciesVals ==
    {Undefined, Null,
     Obj(<< <<"react", Str("^17.0.2")>>, <<"lodash", Str("^4.17.21")>> >>)}
DevDependenciesVals ==
    {Undefined,
     Obj(<< <<"typescript", Str("^4.9.5")>>, <<"vitest", Str("^1.6.0")>> >>)}

\* Parsable manifests that are objects.
ExistingManifests ==
    {Obj(Opt("name", n) \o Opt("version", v) \o Opt("license", l) \o Opt("private", pr)
         \o Opt("type", t) \o Opt("scripts", s) \o Opt("dependencies", d)
         \o Opt("devDependencies", dd)) :
        n \in NameVals, v \in VersionVals, l \in LicenseVals, pr \in PrivateVals,
        t \in TypeVals, s \in ScriptsVals, d \in DependenciesVals,
        dd \in DevDependenciesVals}

\* The manifest {"name":"foo","scripts":{"dev":"custom"}}.
FooCustom == Obj(<< <<"name", Str("foo")>>, <<"scripts", Obj(<< <<"dev", Str("custom")>> >>)>> >>)

Truncated == Text("{ \"name\": \"fo")

\* What package.json may hold at the start: nothing, truncated JSON, the JSON
\* document `null`, or a manifest object.
PackageJsonStates ==
    {Absent, Truncated, Json(Null)} \cup {Json(m) : m \in ExistingManifests}

EmptyRoot == [p \in Paths |-> Absent]

InitCommon ==
    /\ fs0 = fs
    /\ log = <<>>
    /\ calls = [op \in Ops |-> 0]
    /\ raised = {}
    /\ pc = [op \in Ops |-> 0]
    /\ pkg = Obj(<<>>)

InitMerge ==
    /\ fs \in {[EmptyRoot EXCEPT ![pkgPath] = c] : c \in PackageJsonStates}
    /\ InitCommon

NextMerge == createUniversalPackageJson

SpecMerge == InitMerge /\ [][NextMerge]_vars

\* A root scaffolded before: every artifact holds older text.
StaleRoot ==
    [p \in Paths |->
        IF p \in Dirs THEN Dir
        ELSE IF p \in Files \ {pkgPath} THEN Text("stale")
        ELSE Absent]

\* A root with part of a source tree, a build output and a lock file.
PartialRoot ==
    [p \in Paths |->
        IF p \in {"src", "src/components", "dist"} THEN Dir
        ELSE IF p \in {"src/components/UiShell.tsx", "dist/styles.css", "package-lock.json",
                       ".gitignore"}
             THEN Text("stale")
        ELSE Absent]

InitEmit ==
    /\ fs \in {EmptyRoot, StaleRoot, PartialRoot}
    /\ InitCommon

NextEmit ==
    \/ createUniversalTsconfig
    \/ createUniversalTailwindConfig
    \/ createUniversalPostCSSConfig
    \/ createUniversalEslintConfig
    \/ createUniversalIgnixConfig
    \/ createUniversalSrcStructure
    \/ createUniversalGitignore
    \/ createUniversalReadme

SpecEmit == InitEmit /\ [][NextEmit]_vars

ConcurrentPackageJsonStates ==
    {Absent, Truncated, Json(Null), Json(FooCustom),
     Json(Obj(<< <<"license", Str("MIT")>>,
                 <<"dependencies", Obj(<< <<"react", Str("^17.0.2")>> >>)>> >>))}

InitConcurrent ==
    /\ fs \in {[r EXCEPT ![pkgPath] = c] :
                  r \in {EmptyRoot, StaleRoot}, c \in ConcurrentPackageJsonStates}
    /\ InitCommon

NextConcurrent ==
    \/ PackageJsonPathExists
    \/ PackageJsonReadJSON
    \/ PackageJsonWriteJSON
    \/ SrcStructureAwait
    \/ SingleWriteLands

SpecConcurrent == InitConcurrent /\ [][NextConcurrent]_vars

-----------------------------------------------------------------------------
(* Properties of createUniversalPackageJson                                *)

\* A step that is one completed call of createUniversalPackageJson.
MergeStep ==
    calls'["createUniversalPackageJson"] = calls["createUniversalPackageJson"] + 1

\* package.json holds a parsable manifest object.
HoldsManifest(f) == CanReadJSON(f, pkgPath) /\ IsObj(readJSON(f, pkgPath))

ExpectedDefaultScripts ==
    << <<"dev", Str("echo \"Plug your preferred framework dev server here (e.g. vite dev)\"")>>,
       <<"typecheck", Str("tsc --noEmit")>>,
       <<"build:css", Str("tailwindcss -i ./src/styles/index.css -o ./dist/styles.css --minify")>>,
       <<"build", Str("npm run typecheck && npm run build:css")>>,
       <<"lint", Str("eslint \"src/**/*.{ts,tsx}\" --max-warnings=0")>>,
       <<"format", Str("prettier --write \"src/**/*.{ts,tsx,css,md}\"")>> >>

ExpectedDefaultDocument ==
    Obj(<< <<"name", Str("ignix-universal-app")>>,
           <<"version", Str("0.1.0")>>,
           <<"private", True>>,
           <<"type", Str("module")>>,
           <<"scripts", Obj(ExpectedDefaultScripts)>>,
           <<"dependencies",
                Obj(<< <<"react", Str("^18.3.1")>>,
                       <<"react-dom", Str("^18.3.1")>>,
                       <<"@mindfiredigital/ignix-ui", Str("^1.0.5")>>,
                       <<"clsx", Str("^2.1.1")>>,
                       <<"tailwind-merge", Str("^3.0.2")>> >>)>>,
           <<"devDependencies",
                Obj(<< <<"typescript", Str("^5.6.2")>>,
                       <<"@types/react", Str("^18.3.5")>>,
                       <<"@types/react-dom", Str("^18.3.0")>>,
                       <<"tailwindcss", Str("^3.4.14")>>,
                       <<"postcss", Str("^8.4.41")>>,
                       <<"autoprefixer", Str("^10.4.20")>>,
                       <<"eslint", Str("^9.11.1")>>,
                       <<"@typescript-eslint/parser", Str("^8.7.0")>>,
                       <<"@typescript-eslint/eslint-plugin", Str("^8.7.0")>>,
                       <<"prettier", Str("^3.3.3")>>,
                       <<"prettier-plugin-tailwindcss", Str("^0.6.6")>> >>)>> >>)

\* C1: a call that finds no package.json writes exactly the default document
\* (the seven default top-level keys with exactly the default nested keys).
C1_AbsentWritesDefault ==
    [][MergeStep /\ ~pathExists(fs, pkgPath)
        => fs'[pkgPath] = Json(ExpectedDefaultDocument)]_vars

C1_Witness ==
    /\ fs0[pkgPath] = Absent
    /\ calls["createUniversalPackageJson"] = 1
    /\ fs[pkgPath] = Json(ExpectedDefaultDocument)

NestedMaps == {"scripts", "dependencies", "devDependencies"}

\* C2: every entry of an existing scripts, dependencies or devDependencies map
\* is written back with its existing value.
C2_ExistingNestedWins ==
    [][MergeStep /\ HoldsManifest(fs)
        => \A m \in NestedMaps :
              LET old == Prop(readJSON(fs, pkgPath), m)
                  new == Prop(readJSON(fs', pkgPath), m)
              IN  IsObj(old) => \A k \in Keys(old[2]) : Prop(new, k) = Prop(old, k)]_vars

DefaultScriptKeys == {"typecheck", "build:css", "build", "lint", "format"}

\* What C3 promises of one call, for every string value of an existing
\* scripts.dev or for the non-empty ones only.
DevKept(nonEmptyOnly) ==
    MergeStep /\ HoldsManifest(fs)
    => LET old == Prop(readJSON(fs, pkgPath), "scripts")
           new == Prop(readJSON(fs', pkgPath), "scripts")
           V == OptProp(old, "dev")
       IN  /\ (V[1] = "string" /\ (nonEmptyOnly => V[2] # ""))
               => /\ Prop(new, "dev") = V
                  /\ \A k \in DefaultScriptKeys \ Keys(Spread(old)) :
                        Prop(new, k) = Get(ExpectedDefaultScripts, k)
           /\ readJSON(fs, pkgPath) = FooCustom
               => /\ Prop(readJSON(fs', pkgPath), "name") = Str("foo")
                  /\ Prop(new, "dev") = Str("custom")
                  /\ Prop(new, "typecheck") = Str("tsc --noEmit")

KnownTopLevel ==
    {"name", "version", "private", "type", "scripts", "dependencies", "devDependencies"}

\* C4: every top-level key of the existing manifest other than the seven known
\* ones is still in the written manifest, with its value.
C4_UnknownKeysKept ==
    [][MergeStep /\ HoldsManifest(fs)
        => \A k \in Keys(readJSON(fs, pkgPath)[2]) \ KnownTopLevel :
              Prop(readJSON(fs', pkgPath), k) = Prop(readJSON(fs, pkgPath), k)]_vars

\* C5: a call that finds an unparsable package.json does not reject, logs one
\* warning and nothing else, and writes the default document.
C5_UnparsableRecovers ==
    [][MergeStep /\ pathExists(fs, pkgPath) /\ ~CanReadJSON(fs, pkgPath)
        => /\ "createUniversalPackageJson" \notin raised'
           /\ Len(log') = Len(log) + 1
           /\ log'[Len(log')][1] = "warn"
           /\ SubSeq(log', 1, Len(log)) = log
           /\ fs'[pkgPath] = Json(ExpectedDefaultDocument)]_vars

C5_Witness ==
    /\ fs0[pkgPath] = Truncated
    /\ calls["createUniversalPackageJson"] = 1
    /\ log = <<WarnUnparsable>>
    /\ raised = {}
    /\ fs[pkgPath] = Json(ExpectedDefaultDocument)

ExpectedScalarDefaults ==
    << <<"name", Str("ignix-universal-app")>>, <<"version", Str("0.1.0")>>,
       <<"private", True>>, <<"type", Str("module")>> >>

\* When a field's existing value v is the one to carry: whenever it is present,
\* or only when the code's own test (|| for name, version and type, ?? for
\* private) lets it through.
Counts(counts, k, v) ==
    CASE counts = "present" -> v # Undefined
      [] counts = "truthy" ->
            IF k = "private" THEN v # Undefined /\ v # Null ELSE Truthy(v)

\* What C6 promises of one call.
ScalarsKept(counts) ==
    MergeStep /\ HoldsManifest(fs)
    => \A k \in Keys(ExpectedScalarDefaults) :
          LET old == Prop(readJSON(fs, pkgPath), k)
              new == Prop(readJSON(fs', pkgPath), k)
          IN  new = IF Counts(counts, k, old) THEN old ELSE Get(ExpectedScalarDefaults, k)

C10_SecondMergeChangesNothing ==
    [][MergeStep /\ calls["createUniversalPackageJson"] >= 1 => fs' = fs]_vars

C10_Witness ==
    /\ calls["createUniversalPackageJson"] = 2
    /\ HoldsManifest(fs0)
    /\ IsObj(Prop(readJSON(fs0, pkgPath), "devDependencies"))
    /\ HoldsManifest(fs)
    /\ fs[pkgPath] # fs0[pkgPath]

-----------------------------------------------------------------------------
(* Properties of the static emitters                                       *)

\* The files each static emitter is documented to write, with their content.
ExpectedFiles(op) ==
    CASE op = "createUniversalTsconfig" -> {<<"tsconfig.json", Json(tsconfig)>>}
      [] op = "createUniversalTailwindConfig" -> {<<"tailwind.config.js", config>>}
      [] op = "createUniversalPostCSSConfig" -> {<<"postcss.config.js", postcssContents>>}
      [] op = "createUniversalEslintConfig" -> {<<".eslintrc.json", Json(eslintConfig)>>}
      [] op = "createUniversalIgnixConfig" -> {<<"ignix.config.js", ignixConfig>>}
      [] op = "createUniversalSrcStructure" ->
            {<<"src/components/UiShell.tsx", uiShell>>,
             <<"src/pages/index.tsx", pageContent>>,
             <<"src/styles/index.css", styles>>}
      [] op = "createUniversalGitignore" -> {<<".gitignore", gitignoreContents>>}
      [] op = "createUniversalReadme" -> {<<"README.md", readme>>}

\* The directories each static emitter is documented to create.
ExpectedDirs(op) == IF op = "createUniversalSrcStructure" THEN Dirs ELSE {}

Artifacts(op) == {a[1] : a \in ExpectedFiles(op)} \cup ExpectedDirs(op)

\* A step that is one completed call of op.
CallOf(op) == calls'[op] = calls[op] + 1

\* C7: after a call of a static emitter each file it targets holds its fixed
\* content, whatever it held before; a repeated call leaves those files as the
\* earlier call left them.
C7_EmittersOverwriteWithFixedContent ==
    [][\A op \in StaticOps :
          CallOf(op)
          => /\ \A a \in ExpectedFiles(op) : fs'[a[1]] = a[2]
             /\ calls[op] >= 1 => \A a \in ExpectedFiles(op) : fs'[a[1]] = fs[a[1]]]_vars

C7_Witness ==
    /\ fs0 = StaleRoot
    /\ \A op \in StaticOps : calls[op] = 2
    /\ \A op \in StaticOps : \A a \in ExpectedFiles(op) :
          fs0[a[1]] = Text("stale") /\ fs[a[1]] = a[2]

AllStaticOpsRan == \A op \in StaticOps : calls[op] >= 1

Existing(f) == {p \in Paths : pathExists(f, p)}

TenArtifacts ==
    {"tsconfig.json", "tailwind.config.js", "postcss.config.js", ".eslintrc.json",
     "ignix.config.js", "src/components/UiShell.tsx", "src/pages/index.tsx",
     "src/styles/index.css", ".gitignore", "README.md"}

FourDirectoriesAndSrc == {"src/components", "src/pages", "src/styles", "dist", "src"}

\* C8: from an empty root, once every static emitter has run, the existing
\* paths are exactly the ten artifacts (as files) and the four directories with
\* their parent src (as directories); and no call changes a path outside the
\* artifacts of the operation called.
C8_ExactlyTheListedPaths ==
    /\ [](fs0 = EmptyRoot /\ AllStaticOpsRan
            => /\ Existing(fs) = TenArtifacts \cup FourDirectoriesAndSrc
               /\ \A p \in FourDirectoriesAndSrc : fs[p] = Dir
               /\ \A p \in TenArtifacts : fs[p][1] \in {"text", "json"})
    /\ [][\A op \in StaticOps :
            CallOf(op) => \A p \in Paths \ Artifacts(op) : fs'[p] = fs[p]]_vars

C8_Witness ==
    /\ fs0 = EmptyRoot
    /\ \A op \in StaticOps : calls[op] = 1
    /\ Existing(fs) = TenArtifacts \cup FourDirectoriesAndSrc

-----------------------------------------------------------------------------
(* Properties of the operations launched together                          *)

SourceOrder ==
    <<"createUniversalPackageJson", "createUniversalTsconfig",
      "createUniversalTailwindConfig", "createUniversalPostCSSConfig",
      "createUniversalEslintConfig", "createUniversalIgnixConfig",
      "createUniversalSrcStructure", "createUniversalGitignore",
      "createUniversalReadme">>

Reverse(order) == [i \in 1..Len(order) |-> order[Len(order) + 1 - i]]

\* The file system after whole calls of the operations, one after another.
RECURSIVE OneAfterAnother(_, _)
OneAfterAnother(order, f) ==
    IF order = <<>> THEN f ELSE OneAfterAnother(Tail(order), Effect(Head(order), f))

AllSettled == \A op \in Ops : calls[op] = 1

\* C9: when the nine operations, launched together, have all settled, every
\* path holds what it holds after running them one after another, in source
\* order or in the reverse order, from the same root.
C9_InterleavingsAgreeWithSequential ==
    AllSettled
    => /\ fs = OneAfterAnother(SourceOrder, fs0)
       /\ fs = OneAfterAnother(Reverse(SourceOrder), fs0)

C9_Witness ==
    /\ AllSettled
    /\ fs0 = [StaleRoot EXCEPT ![pkgPath] = Json(FooCustom)]
    /\ Prop(Prop(readJSON(fs, pkgPath), "scripts"), "dev") = Str("custom")
    /\ fs["README.md"] = readme
    /\ fs["src/styles/index.css"] = styles

====
